---- MODULE Spec2Model ----
(***************************************************************************)
(* Model of the workforce-management dashboard scripts:                    *)
(*   src/dashboard_charts.js  (dashboard, logs tracker, integration hooks) *)
(*   src/unnamed/part_000     (task-group pie chart)                       *)
(*                                                                         *)
(* Conventions.  Every instant and every duration is an integer number of  *)
(* minutes (the code works in milliseconds and divides by 1000*60*60; one  *)
(* hour is MinPerHour here, so 8.5 h is 510).  A JavaScript Date is the    *)
(* record [ok, t]: ok = FALSE is null / Invalid Date, t the local instant. *)
(* A task-group label is a sequence of one-character strings, so that      *)
(* String.prototype.trim is computed and not assumed.                      *)
(***************************************************************************)
EXTENDS Integers, Sequences, FiniteSets, TLC

\* Longest entry array read from storage.
MaxEntries == 2
\* Most clicks on Add Entry and Generate Report in one behaviour.
MaxClicks == 1

\* (1000 * 60 * 60) ms are one hour; the model counts minutes.
MinPerHour == 60
\* "diff += 24": hours in a day.
HoursPerDay == 24
MinPerDay == MinPerHour * HoursPerDay

\* setDate(getDate() - 6) and setDate(getDate() - 29)
WeeklyBack == 6
MonthlyBack == 29

VARIABLES
  now,        \* the clock: what new Date() returns
  store,      \* the entry array getStoredEntries() returns
  ret,        \* the last call of an aggregator or of parseTime, with its result
  chartLib,   \* typeof Chart !== 'undefined'
  boot,       \* where each script's start-up stands, and the poll's setInterval
  listeners,  \* click listeners attached so far, per button
  dash,       \* dashboard script: dashboardInitialized and the DOM it built
  gfx,        \* the canvases and the Chart instances not yet destroyed
  pie,        \* task-group pie script: its DOM and its pieChart handle
  entryLogs,  \* localStorage 'entryLogs'
  logRows,    \* rows of #logsTable's tbody
  rendered,   \* history: the canvases the last step rendered on
  clicks,     \* history: Dashboard / Logs Tracker clicks so far (parity, any)
  tasks,      \* the timer queue: setTimeout(..., 0) callbacks not yet run, in order
  geo,        \* the clicks whose getCurrentPosition callback is outstanding
  nClicks,    \* Add Entry / Generate Report clicks dispatched so far
  threw,      \* an exception was thrown and caught by nothing
  calls,      \* history: per click, what it was and which of its callbacks ran
  fired       \* history: the callback the last step ran and what it read

hookVars == <<tasks, geo, nClicks, threw, calls, fired>>
uiVars == <<chartLib, boot, listeners, dash, gfx, pie, entryLogs, logRows, rendered, clicks,
            tasks, geo, nClicks, threw, calls, fired>>
vars == <<now, store, ret, chartLib, boot, listeners, dash, gfx, pie, entryLogs, logRows,
          rendered, clicks, tasks, geo, nClicks, threw, calls, fired>>

----------------------------------------------------------------------------
(* JavaScript values *)

\* A missing property, undefined, null or '' of a date-like field.
DateAbsent == [kind |-> "absent", t |-> 0]
\* A non-empty string new Date() cannot parse.
DateBad == [kind |-> "bad", t |-> 0]
DateAt(t) == [kind |-> "at", t |-> t]

NullDate == [ok |-> FALSE, t |-> 0]
JsDate(t) == [ok |-> TRUE, t |-> t]

Max(a, b) == IF a >= b THEN a ELSE b

\* new Date(y, m, d) of a Date: local midnight of its day.
StartOfDay(t) == (t \div MinPerDay) * MinPerDay

\* hoursWorked: absent, a string, a non-finite number, or a finite number v.
HoursAbsent == [kind |-> "absent", v |-> 0]
HoursString == [kind |-> "string", v |-> 0]
HoursNaN == [kind |-> "nan", v |-> 0]
HoursNum(v) == [kind |-> "num", v |-> v]

\* One piece of a time text between colons: '' , a non-numeric word, or digits.
PartEmpty == [kind |-> "empty", v |-> 0]
PartWord == [kind |-> "word", v |-> 0]
PartInt(v) == [kind |-> "int", v |-> v]

\* A time text: its pieces between colons, and the meridiem written in it.
TimeAbsent == [kind |-> "absent", parts |-> <<>>, ap |-> ""]
TimeText(parts, ap) == [kind |-> "text", parts |-> parts, ap |-> ap]
HM(h, m) == TimeText(<<PartInt(h), PartInt(m)>>, "")
HMap(h, m, ap) == TimeText(<<PartInt(h), PartInt(m)>>, ap)

\* Number(x): [nan, v]
NaN == [nan |-> TRUE, v |-> 0]
Num(v) == [nan |-> FALSE, v |-> v]

Number(p) ==
  IF p.kind = "int" THEN Num(p.v)
  ELSE IF p.kind = "empty" THEN Num(0)
  ELSE NaN

\* ampm[0].toLowerCase()
ToLowerCase(s) ==
  IF s \in {"am", "AM", "Am", "aM"} THEN "am"
  ELSE IF s \in {"pm", "PM", "Pm", "pM"} THEN "pm"
  ELSE s

RECURSIVE TrimStart(_)
TrimStart(s) == IF s # <<>> /\ Head(s) = " " THEN TrimStart(Tail(s)) ELSE s

RECURSIVE TrimEnd(_)
TrimEnd(s) ==
  IF s # <<>> /\ s[Len(s)] = " " THEN TrimEnd(SubSeq(s, 1, Len(s) - 1)) ELSE s

\* String.prototype.trim
Trim(s) == TrimEnd(TrimStart(s))

Unspecified == <<"U", "n", "s", "p", "e", "c", "i", "f", "i", "e", "d">>

----------------------------------------------------------------------------
(* Data retrieval helpers *)

\* e.employeeName || e.EmployeeName || e.employee || e.Employee
EmployeeOf(e) ==
  IF e.employeeName # "" THEN e.employeeName
  ELSE IF e.EmployeeName # "" THEN e.EmployeeName
  ELSE IF e.employee # "" THEN e.employee
  ELSE e.Employee

\* e.logDate || e.date || e.LogDate
EntryDateOf(e) ==
  IF e.logDate.kind # "absent" THEN e.logDate
  ELSE IF e.date.kind # "absent" THEN e.date
  ELSE e.LogDate

\* (e.taskGroup || e.TaskGroup || e.group || 'Unspecified').trim()
TaskGroupOf(e) ==
  Trim(IF e.taskGroup # <<>> THEN e.taskGroup
       ELSE IF e.TaskGroup # <<>> THEN e.TaskGroup
       ELSE IF e.group # <<>> THEN e.group
       ELSE Unspecified)

toDateOnly_KeepsTime(d) ==
  IF d.kind = "at" THEN JsDate(d.t) ELSE NullDate

\* toDateOnly: the Date at local midnight, null when the value does not parse.
toDateOnly(d) ==
  IF d.kind = "at" THEN JsDate(StartOfDay(d.t)) ELSE NullDate

\* inBetween(entryDate, start, end): a falsy bound is open.
inBetween(entryDate, start, end) ==
  LET e == toDateOnly(entryDate)
      s == IF start.kind # "absent" THEN toDateOnly(start) ELSE NullDate
      en == IF end.kind # "absent" THEN toDateOnly(end) ELSE NullDate
  IN  IF ~e.ok THEN FALSE
      ELSE IF s.ok /\ e.t < s.t THEN FALSE
      ELSE IF en.ok /\ e.t > en.t THEN FALSE
      ELSE TRUE

\* parseTime(t) at clock reading clk: null, or the Date d.setHours(h, m, 0, 0)
\* of today.
parseTime(t, clk) ==
  IF t.kind = "absent" THEN NullDate
  ELSE LET h == Number(t.parts[1])
           m == IF Len(t.parts) >= 2 THEN Number(t.parts[2]) ELSE NaN
       IN  IF h.nan \/ m.nan THEN NullDate
           ELSE LET ap == ToLowerCase(t.ap)
                    hh == IF ap = "pm" /\ h.v < 12 THEN h.v + 12
                          ELSE IF ap = "am" /\ h.v = 12 THEN 0
                          ELSE h.v
                IN  JsDate(StartOfDay(clk) + hh * MinPerHour + m.v)

\* The hours of one entry as both dashboard aggregators derive them:
\* [ok, v], ok = FALSE when the loop takes "continue".
DerivedHours(e, clk) ==
  IF e.hoursWorked.kind = "num" THEN [ok |-> TRUE, v |-> Max(0, e.hoursWorked.v)]
  ELSE LET st == parseTime(e.startTime, clk)
           et == parseTime(e.endTime, clk)
       IN  IF ~st.ok \/ ~et.ok THEN [ok |-> FALSE, v |-> 0]
           ELSE LET diff == et.t - st.t
                    d2 == IF diff < 0 THEN diff + MinPerDay ELSE diff
                IN  [ok |-> TRUE, v |-> Max(0, d2)]

\* hoursFor(entry) of the task-group pie.
hoursFor(e, clk) ==
  IF e.hoursWorked.kind = "num" THEN Max(0, e.hoursWorked.v)
  ELSE LET st == parseTime(e.startTime, clk)
           et == parseTime(e.endTime, clk)
       IN  IF ~st.ok \/ ~et.ok THEN 0
           ELSE LET diff == et.t - st.t
                    d2 == IF diff < 0 THEN diff + MinPerDay ELSE diff
                IN  Max(0, d2)

\* map[tg] = (map[tg] || 0) + hrs, the map kept in insertion order of its keys.
MapAdd(map, tg, hrs) ==
  IF \E i \in 1..Len(map) : map[i][1] = tg
  THEN [i \in 1..Len(map) |->
          IF map[i][1] = tg THEN <<tg, map[i][2] + hrs>> ELSE map[i]]
  ELSE Append(map, <<tg, hrs>>)

\* Insert pair p behind every pair whose hours are at least p's.
RECURSIVE InsertDesc(_, _)
InsertDesc(sorted, p) ==
  IF sorted = <<>> THEN <<p>>
  ELSE IF Head(sorted)[2] >= p[2] THEN <<Head(sorted)>> \o InsertDesc(Tail(sorted), p)
  ELSE <<p>> \o sorted

SortDesc_KeepsInsertionOrder(pairs) == pairs

\* Object.entries(map).sort((a, b) => b[1] - a[1]): stable, descending by hours.
RECURSIVE SortDesc(_)
SortDesc(pairs) ==
  IF pairs = <<>> THEN <<>>
  ELSE InsertDesc(SortDesc(SubSeq(pairs, 1, Len(pairs) - 1)), pairs[Len(pairs)])

\* The lower bound "from" of a range token, as aggregateForAll's switch sets it.
FromOf(range, clk) ==
  IF range = "daily" THEN DateAt(StartOfDay(clk))
  ELSE IF range = "weekly" THEN DateAt(StartOfDay(clk) - WeeklyBack * MinPerDay)
  ELSE IF range = "monthly" THEN DateAt(StartOfDay(clk) - MonthlyBack * MinPerDay)
  ELSE DateAbsent

\* The test of aggregateForEmployee's loop that lets entry e through to the sum.
EmployeePasses(e, employee, startDate, endDate) ==
  /\ ~(employee # "" /\ EmployeeOf(e) # employee)
  /\ inBetween(EntryDateOf(e), startDate, endDate)

aggregateForEmployee(raw, employee, startDate, endDate, clk) ==
  LET RECURSIVE loop(_, _)
      loop(i, map) ==
        IF i > Len(raw) THEN map
        ELSE LET e == raw[i]
                 hrs == DerivedHours(e, clk)
             IN  IF ~EmployeePasses(e, employee, startDate, endDate) THEN loop(i + 1, map)
                 ELSE IF ~hrs.ok THEN loop(i + 1, map)
                 ELSE loop(i + 1, MapAdd(map, TaskGroupOf(e), hrs.v))
  IN  SortDesc(loop(1, <<>>))

\* The date test of aggregateForAll's loop.
AllPasses(e, range, clk) ==
  ~(range # "all" /\ ~inBetween(EntryDateOf(e), FromOf(range, clk), DateAt(StartOfDay(clk))))

aggregateForAll(raw, range, clk) ==
  LET RECURSIVE loop(_, _)
      loop(i, map) ==
        IF i > Len(raw) THEN map
        ELSE LET e == raw[i]
                 hrs == DerivedHours(e, clk)
             IN  IF ~AllPasses(e, range, clk) THEN loop(i + 1, map)
                 ELSE IF ~hrs.ok THEN loop(i + 1, map)
                 ELSE loop(i + 1, MapAdd(map, TaskGroupOf(e), hrs.v))
  IN  SortDesc(loop(1, <<>>))

\* inRange(entryDate, range) of the task-group pie.
inRange(entryDate, range, clk) ==
  IF range \notin {"daily", "weekly", "monthly"} THEN TRUE
  ELSE LET start == StartOfDay(clk)
           from == IF range = "daily" THEN start
                   ELSE IF range = "weekly" THEN start - WeeklyBack * MinPerDay
                   ELSE start - MonthlyBack * MinPerDay
           e == toDateOnly(entryDate)
       IN  e.ok /\ e.t >= from /\ e.t <= start

aggregateByTaskGroup(raw, range, clk) ==
  LET RECURSIVE loop(_, _)
      loop(i, map) ==
        IF i > Len(raw) THEN map
        ELSE LET e == raw[i]
             IN  IF ~inRange(EntryDateOf(e), range, clk) THEN loop(i + 1, map)
                 ELSE loop(i + 1, MapAdd(map, TaskGroupOf(e), hoursFor(e, clk)))
  IN  SortDesc(loop(1, <<>>))

----------------------------------------------------------------------------
(* The entry store reader *)

\* tryKeys
tryKeys == <<"workEntries", "entries", "timeEntries", "fteEntries", "storedEntries">>

\* What a local-storage key or a global holds: nothing (getItem gives null, the
\* global is undefined), a text that is not JSON, a JSON value that is not an
\* array, or an array.
Absent == [kind |-> "absent", arr |-> <<>>]
Unparseable == [kind |-> "unparseable", arr |-> <<>>]
NotArray == [kind |-> "other", arr |-> <<>>]
ArrayOf(arr) == [kind |-> "array", arr |-> arr]

\* JSON.parse(localStorage.getItem(k)) inside try { } catch (e) {}: thrown = TRUE
\* is the SyntaxError, which the catch swallows; JSON.parse(null) is null.
JSONparse(v) ==
  IF v.kind = "unparseable" THEN [thrown |-> TRUE, v |-> Absent]
  ELSE [thrown |-> FALSE, v |-> v]

\* Array.isArray(v) && v.length
NonEmptyArray(v) == v.kind = "array" /\ Len(v.arr) > 0

\* getStoredEntries(): ls is localStorage by key, win the globals window.entries
\* and window.workEntries.
getStoredEntries(ls, win) ==
  LET RECURSIVE loop(_)
      loop(i) ==
        IF i > Len(tryKeys)
        THEN IF NonEmptyArray(win.entries) THEN win.entries.arr
             ELSE IF NonEmptyArray(win.workEntries) THEN win.workEntries.arr
             ELSE <<>>
        ELSE LET p == JSONparse(ls[tryKeys[i]])
             IN  IF ~p.thrown /\ NonEmptyArray(p.v) THEN p.v.arr ELSE loop(i + 1)
  IN  loop(1)

----------------------------------------------------------------------------
(* Chart rendering *)

CanvasIds == {"employeeDonut", "allDonut", "taskGroupPie"}

\* A canvas: style.display ('' until a render sets it) and _chart (0 is null).
\* gfx.live[c] holds the Chart instances on canvas c that were created and not
\* destroyed, each [id, type].  A destroyed chart that no handle refers to cannot
\* be reached again and is not kept.
FreshCanvas == [display |-> "", chart |-> 0]
GfxInit ==
  [canvas |-> [c \in CanvasIds |-> FreshCanvas], live |-> [c \in CanvasIds |-> {}]]

ChartIds(liveSet) == { ch.id : ch \in liveSet }

\* new Chart(ctx, ...): an instance distinct from every live one of the canvas.
NewChartId(liveSet) ==
  CHOOSE n \in 1..(Cardinality(liveSet) + 1) :
    /\ n \notin ChartIds(liveSet)
    /\ \A m \in 1..(n - 1) : m \in ChartIds(liveSet)

\* chart.destroy()
Destroy(liveSet, id) == { ch \in liveSet : ch.id # id }

renderDonut_KeepsOldChart(g, c, data) ==
  IF data = <<>>
  THEN [g EXCEPT !.canvas[c] = [display |-> "none", chart |-> 0]]
  ELSE LET id == NewChartId(g.live[c])
       IN  [canvas |-> [g.canvas EXCEPT ![c] = [display |-> "block", chart |-> id]],
            live |-> [g.live EXCEPT ![c] = @ \cup {[id |-> id, type |-> "doughnut"]}]]

\* renderDonut(canvas, data)
renderDonut(g, c, data) ==
  LET h == g.canvas[c].chart
      live1 == IF h # 0 THEN Destroy(g.live[c], h) ELSE g.live[c]
  IN  IF data = <<>>
      THEN [canvas |-> [g.canvas EXCEPT ![c] = [display |-> "none", chart |-> 0]],
            live |-> [g.live EXCEPT ![c] = live1]]
      ELSE LET id == NewChartId(live1)
           IN  [canvas |-> [g.canvas EXCEPT ![c] = [display |-> "block", chart |-> id]],
                live |-> [g.live EXCEPT ![c] = live1 \cup {[id |-> id, type |-> "doughnut"]}]]

\* renderPie(canvas, data) of the dashboard script
renderPie(g, c, data) ==
  LET h == g.canvas[c].chart
      live1 == IF h # 0 THEN Destroy(g.live[c], h) ELSE g.live[c]
  IN  IF data = <<>>
      THEN [canvas |-> [g.canvas EXCEPT ![c] = [display |-> "none", chart |-> 0]],
            live |-> [g.live EXCEPT ![c] = live1]]
      ELSE LET id == NewChartId(live1)
           IN  [canvas |-> [g.canvas EXCEPT ![c] = [display |-> "block", chart |-> id]],
                live |-> [g.live EXCEPT ![c] = live1 \cup {[id |-> id, type |-> "pie"]}]]

----------------------------------------------------------------------------
(* Dashboard view *)

\* DEFAULT_EMPLOYEE_NAMES, shortened to its first and its last name.
DEFAULT_EMPLOYEE_NAMES == {"DR. ARLENE S. SY", "MR. JAY REYES"}

\* getEmployeeNames(): the names of the stored entries, else the default list
\* (the host form's employee select is taken to be absent; the order of the
\* options is read nowhere and is not kept).
getEmployeeNames(raw) ==
  LET names == { EmployeeOf(raw[i]) : i \in 1..Len(raw) } \ {""}
  IN  IF names = {} THEN DEFAULT_EMPLOYEE_NAMES ELSE names

\* The dashboard script's state: the flag dashboardInitialized, the number of
\* 'dashboard-section' elements it created, the style.display of the wrapper
\* and of 'logs-section' (inside the wrapper), the employee select with its
\* options, the date inputs, the range select, and the click listeners on the two
\* Generate Chart buttons.
DashInit ==
  [dashboardInitialized |-> FALSE, sections |-> 0, display |-> "", logsDisplay |-> "",
   options |-> {}, select |-> "", start |-> DateAbsent, end |-> DateAbsent,
   range |-> "", empGenListeners |-> 0, allGenListeners |-> 0]

\* populateEmployees(): the options are rebuilt, which leaves the first one
\* ('--Select--', value '') selected.
populateEmployees(d, raw) ==
  IF d.sections = 0 THEN d
  ELSE [d EXCEPT !.options = getEmployeeNames(raw), !.select = ""]

\* updateEmployeeChart()
updateEmployeeChart(d, g, raw, clk) ==
  IF d.sections = 0 THEN g
  ELSE renderPie(g, "employeeDonut",
                 aggregateForEmployee(raw, d.select, d.start, d.end, clk))

\* updateAllChart()
updateAllChart(d, g, raw, clk) ==
  IF d.sections = 0 THEN g
  ELSE renderDonut(g, "allDonut", aggregateForAll(raw, d.range, clk))

\* The value stored under 'entryLogs': nothing (getItem gives null), the JSON
\* text of an array of records, or a text that is not JSON.
LogsAbsent == [kind |-> "absent", list |-> <<>>]
LogsArray(list) == [kind |-> "array", list |-> list]
LogsUnparseable == [kind |-> "unparseable", list |-> <<>>]

\* The records a stored value holds.
LogRecordsOf(v) == IF v.kind = "array" THEN v.list ELSE <<>>

\* JSON.parse(localStorage.getItem('entryLogs') || '[]'): ok = FALSE is the
\* SyntaxError JSON.parse throws.
ParseEntryLogs(v) ==
  IF v.kind = "unparseable" THEN [ok |-> FALSE, list |-> <<>>]
  ELSE IF v.kind = "absent" THEN [ok |-> TRUE, list |-> <<>>]
  ELSE [ok |-> TRUE, list |-> v.list]

\* updateLogsTable(): one row per record of 'entryLogs'; [rows, threw] afterwards.
\* The parse comes before the rows are removed, so a throw leaves the table as it was.
updateLogsTable(d, rows, logs) ==
  IF d.sections = 0 THEN [rows |-> rows, threw |-> FALSE]
  ELSE LET parsed == ParseEntryLogs(logs)
       IN  IF parsed.ok THEN [rows |-> parsed.list, threw |-> FALSE]
           ELSE [rows |-> rows, threw |-> TRUE]

initDashboard_NoGuard(d, lib, raw) ==
  populateEmployees(
    [d EXCEPT !.sections = @ + 1,
              !.display = "none", !.logsDisplay = "none", !.range = "daily",
              !.select = "", !.start = DateAbsent, !.end = DateAbsent,
              !.empGenListeners = @ + 1, !.allGenListeners = @ + 1], raw)

\* initDashboard()
initDashboard(d, lib, raw) ==
  IF d.sections > 0 THEN [d EXCEPT !.dashboardInitialized = TRUE]
  ELSE IF d.dashboardInitialized THEN d
  ELSE IF ~lib THEN [d EXCEPT !.dashboardInitialized = TRUE]
  ELSE populateEmployees(
         [d EXCEPT !.dashboardInitialized = TRUE, !.sections = @ + 1,
                   !.display = "none", !.logsDisplay = "none", !.range = "daily",
                   !.select = "", !.start = DateAbsent, !.end = DateAbsent,
                   !.empGenListeners = @ + 1, !.allGenListeners = @ + 1], raw)

Flip(display) == IF display = "none" \/ display = "" THEN "block" ELSE "none"

\* toggleDashboard()
toggleDashboard(d, lib, raw) ==
  LET d1 == IF ~d.dashboardInitialized THEN initDashboard(d, lib, raw) ELSE d
  IN  IF d1.sections > 0 THEN [d1 EXCEPT !.display = Flip(@)] ELSE d1

\* toggleLogs(), its updateLogsTable() apart
toggleLogs(d, lib, raw) ==
  LET d1 == IF ~d.dashboardInitialized THEN initDashboard(d, lib, raw) ELSE d
  IN  IF d1.sections > 0 THEN [d1 EXCEPT !.logsDisplay = Flip(@)] ELSE d1

----------------------------------------------------------------------------
(* Task-group pie *)

\* The pie script's state: the number of 'task-group-pie-wrap' elements it
\* created, the value of select#tgPieRange, the style.display of p#tgPieEmpty,
\* the variable pieChart (0 is undefined / null), and the listeners it attached.
PieInit ==
  [wraps |-> 0, range |-> "", emptyP |-> "", pieChart |-> 0,
   changeListeners |-> 0, genReportListeners |-> 0]

\* renderPie(range) of the pie script: [pie, gfx] afterwards.
tgRenderPie(p, g, raw, range, clk) ==
  LET c == "taskGroupPie"
      data == aggregateByTaskGroup(raw, range, clk)
      live1 == IF p.pieChart # 0 THEN Destroy(g.live[c], p.pieChart) ELSE g.live[c]
  IN  IF data = <<>>
      THEN [pie |-> [p EXCEPT !.emptyP = "block", !.pieChart = 0],
            gfx |-> [canvas |-> [g.canvas EXCEPT ![c].display = "none"],
                     live |-> [g.live EXCEPT ![c] = live1]]]
      ELSE LET id == NewChartId(live1)
           IN  [pie |-> [p EXCEPT !.emptyP = "none", !.pieChart = id],
                gfx |-> [canvas |-> [g.canvas EXCEPT ![c].display = "block"],
                         live |-> [g.live EXCEPT
                                     ![c] = live1 \cup {[id |-> id, type |-> "pie"]}]]]

\* initTaskGroupPieChart(): [pie, gfx] afterwards.
initTaskGroupPieChart(p, g, raw, clk) ==
  IF p.wraps > 0 THEN [pie |-> p, gfx |-> g]
  ELSE tgRenderPie([p EXCEPT !.wraps = @ + 1, !.range = "monthly", !.emptyP = "none",
                             !.changeListeners = @ + 1, !.genReportListeners = @ + 1],
                   g, raw, "monthly", clk)

----------------------------------------------------------------------------
(* Inputs of the aggregation specification *)

\* Clock readings: a morning and the last minute of the same day.
MorningNow == 100 * MinPerDay + 9 * MinPerHour
NowValues == {MorningNow, 101 * MinPerDay - 1}

\* An entry as the host page stores it; '' , <<>> and the absent values stand
\* for a property that is missing.
BaseEntry(clk) ==
  [employeeName |-> "E1", EmployeeName |-> "", employee |-> "", Employee |-> "",
   logDate |-> DateAt(StartOfDay(clk) + 8 * MinPerHour),
   date |-> DateAbsent, LogDate |-> DateAbsent,
   taskGroup |-> <<"A">>, TaskGroup |-> <<>>, group |-> <<>>,
   hoursWorked |-> HoursNum(2 * MinPerHour),
   startTime |-> TimeAbsent, endTime |-> TimeAbsent]

DaysBack(clk, k) == DateAt(StartOfDay(clk) - k * MinPerDay)

\* Entries that differ in their date field.
DatedEntries(clk) ==
  { [BaseEntry(clk) EXCEPT !.logDate = d] :
      d \in {DateAbsent, DateBad, DaysBack(clk, MonthlyBack + 1),
             DaysBack(clk, MonthlyBack), DaysBack(clk, WeeklyBack + 1),
             DaysBack(clk, WeeklyBack), DaysBack(clk, 1),
             DateAt(StartOfDay(clk) + MinPerDay)} }
  \cup { [BaseEntry(clk) EXCEPT !.logDate = DateAbsent,
                                !.LogDate = DateAt(clk), !.group = <<"B">>,
                                !.taskGroup = <<>>] }

\* Entries of today that differ in how their hours are given.
TimedEntries(clk) ==
  { [BaseEntry(clk) EXCEPT !.hoursWorked = x[1], !.startTime = x[2], !.endTime = x[3],
                           !.taskGroup = x[4]] :
      x \in { <<HoursNum(0 - MinPerHour), TimeAbsent, TimeAbsent, <<"A">> >>,
              <<HoursNum(90), HM(9, 0), HM(17, 30), <<"B">> >>,
              <<HoursNaN, HM(9, 0), HM(17, 30), <<"A">> >>,
              <<HoursAbsent, HM(22, 0), HM(2, 0), <<" ", "A", " ">> >>,
              <<HoursString, HMap(12, 30, "am"), HMap(1, 15, "PM"), <<"B">> >>,
              <<HoursAbsent, TimeText(<<PartWord, PartInt(0)>>, ""), HM(17, 0), <<"C">> >>,
              <<HoursAbsent, HM(9, 0), TimeAbsent, <<>> >>,
              <<HoursAbsent, HM(0, 0), HM(25, 0), <<"A">> >> } }

\* Entries that differ in the property naming the employee.
NamedEntries(clk) ==
  { [BaseEntry(clk) EXCEPT !.employeeName = "", !.EmployeeName = "E2"],
    [BaseEntry(clk) EXCEPT !.employeeName = "", !.Employee = "E1", !.TaskGroup = <<"B">>,
                           !.taskGroup = <<>>],
    [BaseEntry(clk) EXCEPT !.employeeName = ""] }

EntryPool(clk) == DatedEntries(clk) \cup TimedEntries(clk) \cup NamedEntries(clk)

SeqsUpTo(S, n) == UNION { [1..k -> S] : k \in 0..n }

\* Time texts handed to parseTime.
TimeTexts ==
  { TimeAbsent, HM(9, 0), HM(17, 30), HM(25, 0),
    HMap(12, 0, "am"), HMap(12, 5, "PM"), HMap(11, 59, "Pm"), HMap(1, 0, "AM"),
    HMap(13, 0, "pm"),
    TimeText(<<PartInt(5)>>, ""), TimeText(<<PartWord>>, ""),
    TimeText(<<PartInt(5), PartEmpty>>, ""), TimeText(<<PartEmpty, PartEmpty>>, ""),
    TimeText(<<PartEmpty, PartInt(30)>>, "pm"), TimeText(<<PartInt(5), PartWord>>, ""),
    TimeText(<<PartEmpty>>, "am"), TimeText(<<PartInt(9), PartInt(0), PartInt(30)>>, "") }

EmployeeArgs == {"", "E1", "E2"}
StartArgs(clk) == {DateAbsent, DaysBack(clk, WeeklyBack)}
EndArgs(clk) == {DateAbsent, DaysBack(clk, 1)}
\* "" stands for a call without a token (undefined).
RangeArgs == {"daily", "weekly", "monthly", "all", "", "yearly"}

NoCall ==
  [fn |-> "none", employee |-> "", start |-> DateAbsent, end |-> DateAbsent,
   range |-> "", time |-> TimeAbsent, out |-> <<>>, parsed |-> NullDate,
   ls |-> <<>>, win |-> <<>>, entries |-> <<>>,
   logs |-> LogsAbsent, rows |-> <<>>, logsAfter |-> LogsAbsent, threw |-> FALSE]

----------------------------------------------------------------------------
(* The aggregation specification: the functions called on any stored array *)

\* What is known of a click on Add Entry or Generate Report: which button, the
\* length of the entry array once the host page's handler for it has run, whether
\* the logs panel was visible, and which of its callbacks have run.
NoClickYet ==
  [kind |-> "none", need |-> 0, logsShown |-> FALSE, refreshed |-> FALSE, geo |-> "none"]

\* The callback the last step ran: which, for which click, inside a click
\* dispatch or not, the length of the entry array it read, the employee selected
\* and the dashboard's display when it began, and the data it gave the employee chart.
NothingFired ==
  [what |-> "none", click |-> 0, inDispatch |-> FALSE, saw |-> 0, selBefore |-> "",
   shownBefore |-> FALSE, drewEmp |-> FALSE, empData |-> <<>>]

\* The page before either script has started.
ScriptsLoaded ==
  /\ boot = [dash |-> "loading", pie |-> "loading", interval |-> "none"]
  /\ listeners = [dashboardBtn |-> 0, logsTrackerBtn |-> 0, addEntryBtn |-> 0,
                  generateReport |-> 0]
  /\ dash = DashInit
  /\ gfx = GfxInit
  /\ pie = PieInit
  /\ logRows = <<>>
  /\ rendered = {}
  /\ clicks = [dashOdd |-> FALSE, logsOdd |-> FALSE, dashAny |-> FALSE, logsAny |-> FALSE]
  /\ tasks = <<>>
  /\ geo = {}
  /\ nClicks = 0
  /\ threw = FALSE
  /\ calls = [k \in 1..MaxClicks |-> NoClickYet]
  /\ fired = NothingFired

PageLoaded == ScriptsLoaded /\ entryLogs = LogsAbsent

Init ==
  /\ now \in NowValues
  /\ store \in SeqsUpTo(EntryPool(now), MaxEntries)
  /\ ret = NoCall
  /\ chartLib = FALSE
  /\ PageLoaded

\* A call neither writes the store nor moves the clock, so one call from each
\* initial state shows every result a later call could give.
Idle == ret.fn = "none"

CallAggregateForEmployee ==
  /\ Idle
  /\ \E employee \in EmployeeArgs, s \in StartArgs(now), e \in EndArgs(now) :
       ret' = [NoCall EXCEPT !.fn = "aggregateForEmployee", !.employee = employee,
                             !.start = s, !.end = e,
                             !.out = aggregateForEmployee(store, employee, s, e, now)]
  /\ UNCHANGED <<now, store>> /\ UNCHANGED uiVars

CallAggregateForAll ==
  /\ Idle
  /\ \E range \in RangeArgs :
       ret' = [NoCall EXCEPT !.fn = "aggregateForAll", !.range = range,
                             !.out = aggregateForAll(store, range, now)]
  /\ UNCHANGED <<now, store>> /\ UNCHANGED uiVars

CallAggregateByTaskGroup ==
  /\ Idle
  /\ \E range \in RangeArgs :
       ret' = [NoCall EXCEPT !.fn = "aggregateByTaskGroup", !.range = range,
                             !.out = aggregateByTaskGroup(store, range, now)]
  /\ UNCHANGED <<now, store>> /\ UNCHANGED uiVars

CallParseTime ==
  /\ Idle
  /\ \E t \in TimeTexts :
       ret' = [NoCall EXCEPT !.fn = "parseTime", !.time = t,
                             !.parsed = parseTime(t, now)]
  /\ UNCHANGED <<now, store>> /\ UNCHANGED uiVars

Next ==
  \/ CallAggregateForEmployee
  \/ CallAggregateForAll
  \/ CallAggregateByTaskGroup
  \/ CallParseTime

Spec == Init /\ [][Next]_vars

----------------------------------------------------------------------------
(* The page specification: both scripts start, the library arrives, and the  *)
(* user clicks and selects                                                   *)

\* Stored arrays of the page specification: empty; an entry a week old with
\* an entry of today whose start time does not parse; entries of two employees.
UIStores(clk) ==
  LET old == [BaseEntry(clk) EXCEPT !.logDate = DaysBack(clk, WeeklyBack + 1)]
      unparsed == [BaseEntry(clk) EXCEPT
                     !.hoursWorked = HoursAbsent, !.taskGroup = <<"C">>,
                     !.startTime = TimeText(<<PartWord, PartInt(0)>>, ""),
                     !.endTime = HM(17, 0)]
      other == [BaseEntry(clk) EXCEPT !.employeeName = "E2", !.taskGroup = <<"B">>,
                                      !.hoursWorked = HoursAbsent,
                                      !.startTime = HM(9, 0), !.endTime = HM(17, 30)]
  IN  { <<>>, <<old, unparsed>>, <<old, other>> }

\* What the user can put into the two date inputs.
EmpDateChoices(clk) == { <<DateAbsent, DateAbsent>>, <<DaysBack(clk, WeeklyBack), DateAt(clk)>> }

InitUI ==
  /\ now = MorningNow
  /\ store \in UIStores(now)
  /\ ret = NoCall
  /\ chartLib \in BOOLEAN
  /\ PageLoaded

\* attach(): attachIntegrationHooks() and the two toggle listeners.
attach(l) ==
  [l EXCEPT !.addEntryBtn = @ + 1, !.generateReport = @ + 1,
            !.dashboardBtn = @ + 1, !.logsTrackerBtn = @ + 1]

NoClick == UNCHANGED clicks
\* A step that runs no timer or geolocation callback and dispatches no click on
\* Add Entry or Generate Report.
Quiet == fired' = NothingFired /\ UNCHANGED <<tasks, geo, nClicks, calls>>
NothingRendered == rendered' = {}

\* start() of the dashboard script.
Start ==
  /\ boot.dash = "loading"
  /\ IF chartLib
     THEN /\ listeners' = attach(listeners)
          /\ boot' = [boot EXCEPT !.dash = "attached"]
     ELSE /\ boot' = [boot EXCEPT !.dash = "polling", !.interval = "active"]
          /\ UNCHANGED listeners
  /\ NothingRendered /\ NoClick
  /\ Quiet /\ UNCHANGED threw
  /\ UNCHANGED <<now, store, ret, chartLib, dash, gfx, pie, entryLogs, logRows>>

PollTick_KeepsPolling ==
  /\ boot.interval = "active"
  /\ listeners.dashboardBtn < 3
  /\ IF chartLib
     THEN /\ listeners' = attach(listeners)
          /\ boot' = [boot EXCEPT !.dash = "attached"]
     ELSE UNCHANGED <<listeners, boot>>
  /\ NothingRendered /\ NoClick
  /\ Quiet /\ UNCHANGED threw
  /\ UNCHANGED <<now, store, ret, chartLib, dash, gfx, pie, entryLogs, logRows>>

\* One tick of the setInterval poll: ticks come for as long as the interval is
\* not cleared.
PollTick ==
  /\ boot.interval = "active"
  /\ IF chartLib
     THEN /\ listeners' = attach(listeners)
          /\ boot' = [boot EXCEPT !.dash = "attached", !.interval = "cleared"]
     ELSE UNCHANGED <<listeners, boot>>
  /\ NothingRendered /\ NoClick
  /\ Quiet /\ UNCHANGED threw
  /\ UNCHANGED <<now, store, ret, chartLib, dash, gfx, pie, entryLogs, logRows>>

\* A script tag of the host page finishes loading Chart.js.
HostLoadsChartJs ==
  /\ ~chartLib
  /\ chartLib' = TRUE
  /\ NothingRendered /\ NoClick
  /\ Quiet /\ UNCHANGED threw
  /\ UNCHANGED <<now, store, ret, boot, listeners, dash, gfx, pie, entryLogs, logRows>>

\* loadChartJS(initTaskGroupPieChart) when the pie script starts.
PieStart ==
  /\ boot.pie = "loading"
  /\ IF chartLib
     THEN LET r == initTaskGroupPieChart(pie, gfx, store, now)
          IN  /\ pie' = r.pie /\ gfx' = r.gfx
              /\ boot' = [boot EXCEPT !.pie = "done"]
              /\ rendered' = {[canvas |-> "taskGroupPie", replaced |-> FALSE]}
     ELSE /\ boot' = [boot EXCEPT !.pie = "waiting"]
          /\ NothingRendered
          /\ UNCHANGED <<pie, gfx>>
  /\ NoClick
  /\ Quiet /\ UNCHANGED threw
  /\ UNCHANGED <<now, store, ret, chartLib, listeners, dash, entryLogs, logRows>>

\* script.onload of the tag loadChartJS appended: Chart is defined, the callback runs.
PieScriptOnload ==
  /\ boot.pie = "waiting"
  /\ chartLib' = TRUE
  /\ LET r == initTaskGroupPieChart(pie, gfx, store, now)
     IN  pie' = r.pie /\ gfx' = r.gfx
  /\ boot' = [boot EXCEPT !.pie = "done"]
  /\ rendered' = {[canvas |-> "taskGroupPie", replaced |-> FALSE]}
  /\ NoClick
  /\ Quiet /\ UNCHANGED threw
  /\ UNCHANGED <<now, store, ret, listeners, dash, entryLogs, logRows>>

\* initTaskGroupPieChart() invoked once more (the script included again).
PieInitAgain ==
  /\ boot.pie = "done"
  /\ LET r == initTaskGroupPieChart(pie, gfx, store, now)
     IN  pie' = r.pie /\ gfx' = r.gfx
  /\ NothingRendered /\ NoClick
  /\ Quiet /\ UNCHANGED threw
  /\ UNCHANGED <<now, store, ret, chartLib, boot, listeners, dash, entryLogs, logRows>>

\* A click on #dashboardBtn.
ClickDashboard ==
  /\ listeners.dashboardBtn > 0
  /\ dash' = toggleDashboard(dash, chartLib, store)
  /\ clicks' = [clicks EXCEPT !.dashOdd = ~@, !.dashAny = TRUE]
  /\ NothingRendered
  /\ Quiet /\ UNCHANGED threw
  /\ UNCHANGED <<now, store, ret, chartLib, boot, listeners, gfx, pie, entryLogs, logRows>>

\* A click on #logsTrackerBtn.
ClickLogs ==
  /\ listeners.logsTrackerBtn > 0
  /\ LET d1 == toggleLogs(dash, chartLib, store)
         t == IF d1.sections > 0 /\ d1.logsDisplay = "block"
              THEN updateLogsTable(d1, logRows, entryLogs)
              ELSE [rows |-> logRows, threw |-> FALSE]
     IN  /\ dash' = d1
         /\ logRows' = t.rows
         /\ threw' = (threw \/ t.threw)
  /\ clicks' = [clicks EXCEPT !.logsOdd = ~@, !.logsAny = TRUE]
  /\ NothingRendered /\ Quiet
  /\ UNCHANGED <<now, store, ret, chartLib, boot, listeners, gfx, pie, entryLogs>>

Replaced(c, g1, g2) == g1.live[c] # {} /\ g2.live[c] # {}

\* A click on #generateEmployeeChartBtn.
ClickGenerateEmployeeChart ==
  /\ dash.empGenListeners > 0
  /\ LET g == updateEmployeeChart(dash, gfx, store, now)
     IN  /\ gfx' = g
         /\ rendered' = {[canvas |-> "employeeDonut",
                          replaced |-> Replaced("employeeDonut", gfx, g)]}
  /\ NoClick
  /\ Quiet /\ UNCHANGED threw
  /\ UNCHANGED <<now, store, ret, chartLib, boot, listeners, dash, pie, entryLogs, logRows>>

\* A click on #generateAllChartBtn.
ClickGenerateAllChart ==
  /\ dash.allGenListeners > 0
  /\ LET g == updateAllChart(dash, gfx, store, now)
     IN  /\ gfx' = g
         /\ rendered' = {[canvas |-> "allDonut", replaced |-> Replaced("allDonut", gfx, g)]}
  /\ NoClick
  /\ Quiet /\ UNCHANGED threw
  /\ UNCHANGED <<now, store, ret, chartLib, boot, listeners, dash, pie, entryLogs, logRows>>

\* The user picks an option of #employeeSelect.
SelectEmployee ==
  /\ dash.sections > 0
  /\ \E v \in dash.options \cup {""} :
       /\ v # dash.select
       /\ dash' = [dash EXCEPT !.select = v]
  /\ NothingRendered /\ NoClick
  /\ Quiet /\ UNCHANGED threw
  /\ UNCHANGED <<now, store, ret, chartLib, boot, listeners, gfx, pie, entryLogs, logRows>>

\* The user sets #empStartDate and #empEndDate.
SetEmpDates ==
  /\ dash.sections > 0
  /\ \E se \in EmpDateChoices(now) :
       /\ se # <<dash.start, dash.end>>
       /\ dash' = [dash EXCEPT !.start = se[1], !.end = se[2]]
  /\ NothingRendered /\ NoClick
  /\ Quiet /\ UNCHANGED threw
  /\ UNCHANGED <<now, store, ret, chartLib, boot, listeners, gfx, pie, entryLogs, logRows>>

\* The user picks an option of #allRangeSelect.
SelectAllRange ==
  /\ dash.sections > 0
  /\ \E r \in {"daily", "weekly", "monthly"} :
       /\ r # dash.range
       /\ dash' = [dash EXCEPT !.range = r]
  /\ NothingRendered /\ NoClick
  /\ Quiet /\ UNCHANGED threw
  /\ UNCHANGED <<now, store, ret, chartLib, boot, listeners, gfx, pie, entryLogs, logRows>>

\* The user picks an option of #tgPieRange: its change listener renders.
ChangePieRange ==
  /\ pie.changeListeners > 0
  /\ \E r \in {"daily", "weekly", "monthly", "all"} :
       /\ r # pie.range
       /\ LET res == tgRenderPie([pie EXCEPT !.range = r], gfx, store, r, now)
          IN  /\ pie' = res.pie
              /\ gfx' = res.gfx
              /\ rendered' = {[canvas |-> "taskGroupPie",
                               replaced |-> Replaced("taskGroupPie", gfx, res.gfx)]}
  /\ NoClick
  /\ Quiet /\ UNCHANGED threw
  /\ UNCHANGED <<now, store, ret, chartLib, boot, listeners, dash, entryLogs, logRows>>

NextUI ==
  \/ Start
  \/ PollTick
  \/ HostLoadsChartJs
  \/ PieStart
  \/ PieScriptOnload
  \/ PieInitAgain
  \/ ClickDashboard
  \/ ClickLogs
  \/ ClickGenerateEmployeeChart
  \/ ClickGenerateAllChart
  \/ SelectEmployee
  \/ SetEmpDates
  \/ SelectAllRange
  \/ ChangePieRange

SpecUI == InitUI /\ [][NextUI]_vars

----------------------------------------------------------------------------
(* The start-up specification: the scripts start, the poll ticks, the library *)
(* arrives, and the user clicks the two toggle buttons.  DOMContentLoaded     *)
(* fires and an interval that is not cleared keeps ticking.                   *)

NextBoot ==
  \/ Start
  \/ PollTick
  \/ HostLoadsChartJs
  \/ PieStart
  \/ PieScriptOnload
  \/ ClickDashboard
  \/ ClickLogs

SpecBoot == InitUI /\ [][NextBoot]_vars /\ WF_vars(Start) /\ WF_vars(PollTick)

----------------------------------------------------------------------------
(* The hooks specification: clicks on Add Entry and Generate Report, the     *)
(* timer queue and the geolocation callbacks                                 *)

\* The setTimeout callback of both listeners of attachIntegrationHooks:
\* [dash, gfx, rows, threw] afterwards, with what it gave the employee chart.
deferredRefresh(d, g, rows, logs, raw, clk) ==
  LET d1 == populateEmployees(d, raw)
      shown == d1.sections > 0 /\ d1.display # "none"
      g1 == IF shown THEN updateEmployeeChart(d1, g, raw, clk) ELSE g
      g2 == IF shown THEN updateAllChart(d1, g1, raw, clk) ELSE g1
      logsShown == d1.sections > 0 /\ d1.logsDisplay # "none"
      t == IF logsShown THEN updateLogsTable(d1, rows, logs)
           ELSE [rows |-> rows, threw |-> FALSE]
  IN  [dash |-> d1, gfx |-> g2, rows |-> t.rows, threw |-> t.threw, drewEmp |-> shown,
       empData |-> IF shown
                   THEN aggregateForEmployee(raw, d1.select, d1.start, d1.end, clk)
                   ELSE <<>>]

\* The getCurrentPosition callback: [logs, threw] afterwards.
geoCallback(logs, clk, pos) ==
  LET parsed == ParseEntryLogs(logs)
  IN  IF parsed.ok
      THEN [logs |-> LogsArray(Append(parsed.list,
                                      [date |-> clk, lat |-> pos[1], lon |-> pos[2]])),
            threw |-> FALSE]
      ELSE [logs |-> logs, threw |-> TRUE]

\* Everything a listener can read or write, for the click k being dispatched
\* or the click k whose callback runs; ran is the callback run so far in this step.
World(k) ==
  [clk |-> now, click |-> k, store |-> store, dash |-> dash, gfx |-> gfx, pie |-> pie,
   rows |-> logRows, logs |-> entryLogs, threw |-> threw, tasks |-> tasks, geo |-> geo,
   ran |-> NothingFired]

\* The deferred refresh, run in world w.
refreshNow(w, inDispatch) ==
  LET r == deferredRefresh(w.dash, w.gfx, w.rows, w.logs, w.store, w.clk)
  IN  [w EXCEPT !.dash = r.dash, !.gfx = r.gfx, !.rows = r.rows,
                !.threw = (@ \/ r.threw),
                !.ran = [what |-> "refresh", click |-> w.click,
                         inDispatch |-> inDispatch, saw |-> Len(w.store),
                         selBefore |-> w.dash.select,
                         shownBefore |-> (w.dash.sections > 0 /\ w.dash.display = "block"),
                         drewEmp |-> r.drewEmp, empData |-> r.empData]]

\* setTimeout(() => renderPie(select.value), 0) of the pie script, when it runs.
pieRenderNow(w, inDispatch) ==
  LET r == tgRenderPie(w.pie, w.gfx, w.store, w.pie.range, w.clk)
  IN  [w EXCEPT !.pie = r.pie, !.gfx = r.gfx,
                !.ran = [NothingFired EXCEPT !.what = "pieRender", !.click = w.click,
                                             !.inDispatch = inDispatch,
                                             !.saw = Len(w.store)]]

addEntryListener_RefreshesAtOnce(w) ==
  [refreshNow(w, TRUE) EXCEPT !.geo = @ \cup {w.click}]

\* The click listener on the Add Entry button: getCurrentPosition(callback), then
\* setTimeout(refresh, 0).  (Without navigator.geolocation no lookup starts,
\* which is a lookup that never resolves.)
addEntryListener(w) ==
  [w EXCEPT !.geo = @ \cup {w.click},
            !.tasks = Append(@, [kind |-> "refresh", click |-> w.click])]

\* The click listener on the Generate Report button: setTimeout(refresh, 0).
generateReportListener(w) ==
  [w EXCEPT !.tasks = Append(@, [kind |-> "refresh", click |-> w.click])]

\* The pie script's click listener on the Generate Report button.
pieGenerateReportListener(w) ==
  [w EXCEPT !.tasks = Append(@, [kind |-> "pieRender", click |-> w.click])]

\* The host page's own handler for the click: one synchronous write of the
\* entry array (hw is what it appends, possibly nothing).
hostHandler(w, hw) == [w EXCEPT !.store = @ \o hw]

\* The state after a step is world w.
Becomes(w) ==
  /\ store' = w.store /\ dash' = w.dash /\ gfx' = w.gfx /\ pie' = w.pie
  /\ logRows' = w.rows /\ entryLogs' = w.logs /\ threw' = w.threw
  /\ tasks' = w.tasks /\ geo' = w.geo /\ fired' = w.ran
  /\ rendered' =
       IF w.ran.what = "refresh" /\ w.ran.drewEmp
       THEN { [canvas |-> c, replaced |-> Replaced(c, gfx, w.gfx)] :
                c \in {"employeeDonut", "allDonut"} }
       ELSE IF w.ran.what = "pieRender"
       THEN { [canvas |-> "taskGroupPie",
               replaced |-> Replaced("taskGroupPie", gfx, w.gfx)] }
       ELSE {}

\* Stored arrays of the hooks specification: an entry of each of two employees.
HookStores(clk) ==
  LET mine == [BaseEntry(clk) EXCEPT !.employeeName = "E1", !.taskGroup = <<"A">>]
      other == [BaseEntry(clk) EXCEPT !.employeeName = "E2", !.taskGroup = <<"B">>,
                                      !.hoursWorked = HoursAbsent,
                                      !.startTime = HM(9, 0), !.endTime = HM(17, 30)]
  IN  { <<mine, other>> }

\* What the host page's handler appends to the entry array: nothing, or an entry.
HostWrites(clk) ==
  { <<>>, <<[BaseEntry(clk) EXCEPT !.employeeName = "E2", !.taskGroup = <<"C">>]>> }

\* The position the lookup of click k resolves with, <<latitude, longitude>>:
\* another one for each click, so that the records tell the clicks apart.
Positions(k) == { <<14 + k, 121>> }

\* What 'entryLogs' holds when the page loads.
StoredLogs(clk) ==
  { LogsAbsent, LogsUnparseable,
    LogsArray(<<[date |-> clk - MinPerDay, lat |-> 14, lon |-> 121]>>) }

\* Both scripts have started on a page where Chart.js was already defined.
ScriptsStarted ==
  LET r == initTaskGroupPieChart(PieInit, GfxInit, store, now)
  IN  /\ boot = [dash |-> "attached", pie |-> "done", interval |-> "none"]
      /\ listeners = attach([dashboardBtn |-> 0, logsTrackerBtn |-> 0, addEntryBtn |-> 0,
                             generateReport |-> 0])
      /\ dash = DashInit
      /\ gfx = r.gfx
      /\ pie = r.pie
      /\ logRows = <<>>
      /\ rendered = {}
      /\ clicks = [dashOdd |-> FALSE, logsOdd |-> FALSE, dashAny |-> FALSE, logsAny |-> FALSE]
      /\ tasks = <<>>
      /\ geo = {}
      /\ nClicks = 0
      /\ threw = FALSE
      /\ calls = [k \in 1..MaxClicks |-> NoClickYet]
      /\ fired = NothingFired

InitHooks ==
  /\ now = MorningNow
  /\ store \in HookStores(now)
  /\ ret = NoCall
  /\ chartLib = TRUE
  /\ ScriptsStarted
  /\ entryLogs \in StoredLogs(now)

\* A click on the Add Entry button: the host's handler and this script's
\* listener run in the order they were registered.
ClickAddEntry ==
  /\ nClicks < MaxClicks
  /\ \E hostFirst \in BOOLEAN, hw \in HostWrites(now) :
       LET k == nClicks + 1
           script(w) == IF listeners.addEntryBtn > 0 THEN addEntryListener(w) ELSE w
           w2 == IF hostFirst THEN script(hostHandler(World(k), hw))
                 ELSE hostHandler(script(World(k)), hw)
       IN  /\ Becomes(w2)
           /\ nClicks' = k
           /\ calls' = [calls EXCEPT ![k] =
                          [kind |-> "add", need |-> Len(w2.store),
                           logsShown |-> (dash.sections > 0 /\ dash.display = "block"
                                            /\ dash.logsDisplay = "block"),
                           refreshed |-> w2.ran.what = "refresh",
                           geo |-> IF k \in w2.geo THEN "pending" ELSE "none"]]
  /\ NoClick
  /\ UNCHANGED <<now, ret, chartLib, boot, listeners>>

\* A click on the Generate Report button: the host's handler, this script's
\* listener and the pie script's listener run in the order they were registered.
ClickGenerateReport ==
  /\ nClicks < MaxClicks
  /\ \E hostFirst \in BOOLEAN, pieFirst \in BOOLEAN, hw \in HostWrites(now) :
       LET k == nClicks + 1
           script(w) == IF listeners.generateReport > 0
                        THEN generateReportListener(w) ELSE w
           pieScript(w) == IF pie.genReportListeners > 0
                           THEN pieGenerateReportListener(w) ELSE w
           both(w) == IF pieFirst THEN script(pieScript(w)) ELSE pieScript(script(w))
           w2 == IF hostFirst THEN both(hostHandler(World(k), hw))
                 ELSE hostHandler(both(World(k)), hw)
       IN  /\ Becomes(w2)
           /\ nClicks' = k
           /\ calls' = [calls EXCEPT ![k] =
                          [kind |-> "report", need |-> Len(w2.store),
                           logsShown |-> (dash.sections > 0 /\ dash.display = "block"
                                            /\ dash.logsDisplay = "block"),
                           refreshed |-> w2.ran.what = "refresh",
                           geo |-> "none"]]
  /\ NoClick
  /\ UNCHANGED <<now, ret, chartLib, boot, listeners>>

\* The event loop runs the oldest setTimeout callback.
RunTimeout ==
  /\ tasks # <<>>
  /\ LET t == Head(tasks)
         w == [World(t.click) EXCEPT !.tasks = Tail(tasks)]
     IN  /\ Becomes(IF t.kind = "refresh" THEN refreshNow(w, FALSE)
                    ELSE pieRenderNow(w, FALSE))
         /\ calls' = IF t.kind = "refresh"
                     THEN [calls EXCEPT ![t.click].refreshed = TRUE]
                     ELSE calls
  /\ NoClick
  /\ UNCHANGED <<now, ret, chartLib, boot, listeners, nClicks>>

\* A geolocation lookup resolves and its callback runs.
GeoResolves ==
  /\ \E k \in geo : \E pos \in Positions(k) :
       LET r == geoCallback(entryLogs, now, pos)
       IN  /\ entryLogs' = r.logs
           /\ threw' = (threw \/ r.threw)
           /\ geo' = geo \ {k}
           /\ calls' = [calls EXCEPT ![k].geo = "resolved"]
           /\ fired' = [NothingFired EXCEPT !.what = "geo", !.click = k]
  /\ NothingRendered /\ NoClick
  /\ UNCHANGED <<now, store, ret, chartLib, boot, listeners, dash, gfx, pie, logRows,
                 tasks, nClicks>>

\* A geolocation lookup fails (permission denied): its callback is never invoked.
GeoNeverResolves ==
  /\ \E k \in geo :
       /\ geo' = geo \ {k}
       /\ calls' = [calls EXCEPT ![k].geo = "never"]
  /\ fired' = NothingFired
  /\ NothingRendered /\ NoClick
  /\ UNCHANGED <<now, store, ret, chartLib, boot, listeners, dash, gfx, pie, entryLogs,
                 logRows, tasks, nClicks, threw>>

NextHooks ==
  \/ ClickDashboard
  \/ ClickLogs
  \/ SelectEmployee
  \/ ClickAddEntry
  \/ ClickGenerateReport
  \/ RunTimeout
  \/ GeoResolves
  \/ GeoNeverResolves

SpecHooks == InitHooks /\ [][NextHooks]_vars

----------------------------------------------------------------------------
(* The storage specification: the functions that read local storage, called  *)
(* on what the keys may hold                                                 *)

\* The array kept under the i-th key (or global): one entry, whose hours tell
\* where it was read.
ArrayAt(clk, i) == <<[BaseEntry(clk) EXCEPT !.hoursWorked = HoursNum(i * MinPerHour)]>>

\* What localStorage may hold under each of the entry keys.
Storages ==
  [{ tryKeys[i] : i \in 1..Len(tryKeys) } ->
     {"absent", "unparseable", "other", "empty", "full"}]

StoredUnder(clk, ls, i) ==
  LET k == ls[tryKeys[i]]
  IN  IF k = "absent" THEN Absent
      ELSE IF k = "unparseable" THEN Unparseable
      ELSE IF k = "other" THEN NotArray
      ELSE IF k = "empty" THEN ArrayOf(<<>>)
      ELSE ArrayOf(ArrayAt(clk, i))

\* What window.entries and window.workEntries may hold.
Windows(clk) ==
  { [entries |-> e, workEntries |-> w] :
      e \in {Absent, NotArray, ArrayOf(<<>>), ArrayOf(ArrayAt(clk, Len(tryKeys) + 1))},
      w \in {Absent, ArrayOf(ArrayAt(clk, Len(tryKeys) + 2))} }

\* The dashboard once built (the table #logsTable exists).
DashBuilt == initDashboard(DashInit, TRUE, <<>>)

InitStorage ==
  /\ now = MorningNow
  /\ store = <<>>
  /\ ret = NoCall
  /\ chartLib = FALSE
  /\ PageLoaded

CallGetStoredEntries ==
  /\ Idle
  /\ \E kinds \in Storages, win \in Windows(now) :
       LET ls == [k \in DOMAIN kinds |->
                    StoredUnder(now, kinds, CHOOSE i \in 1..Len(tryKeys) : tryKeys[i] = k)]
       IN  ret' = [NoCall EXCEPT !.fn = "getStoredEntries", !.ls = ls, !.win = win,
                                 !.entries = getStoredEntries(ls, win)]
  /\ UNCHANGED <<now, store>> /\ UNCHANGED uiVars

CallUpdateLogsTable ==
  /\ Idle
  /\ \E logs \in StoredLogs(now), rows \in { LogRecordsOf(v) : v \in StoredLogs(now) } :
       LET r == updateLogsTable(DashBuilt, rows, logs)
       IN  ret' = [NoCall EXCEPT !.fn = "updateLogsTable", !.logs = logs,
                                 !.rows = r.rows, !.threw = r.threw]
  /\ UNCHANGED <<now, store>> /\ UNCHANGED uiVars

CallGeoCallback ==
  /\ Idle
  /\ \E logs \in StoredLogs(now), pos \in Positions(1) :
       LET r == geoCallback(logs, now, pos)
       IN  ret' = [NoCall EXCEPT !.fn = "geoCallback", !.logs = logs,
                                 !.logsAfter = r.logs, !.threw = r.threw]
  /\ UNCHANGED <<now, store>> /\ UNCHANGED uiVars

NextStorage ==
  \/ CallGetStoredEntries
  \/ CallUpdateLogsTable
  \/ CallGeoCallback

SpecStorage == InitStorage /\ [][NextStorage]_vars

----------------------------------------------------------------------------
(* Vocabulary of the properties *)

AggregatorNames == {"aggregateForEmployee", "aggregateForAll", "aggregateByTaskGroup"}
RangeAggregators == {"aggregateForAll", "aggregateByTaskGroup"}
WindowTokens == {"daily", "weekly", "monthly"}

Labels(out) == { out[i][1] : i \in 1..Len(out) }
HoursIn(out, tg) ==
  IF tg \in Labels(out) THEN out[CHOOSE i \in 1..Len(out) : out[i][1] = tg][2] ELSE 0

RECURSIVE SumSet(_, _)
SumSet(S, f) ==
  IF S = {} THEN 0
  ELSE LET x == CHOOSE y \in S : TRUE IN f[x] + SumSet(S \ {x}, f)

\* The calendar day (days since the epoch) of an instant.
DayOf(t) == t \div MinPerDay
Today == DayOf(now)
HasDay(e) == EntryDateOf(e).kind = "at"
EntryDay(e) == DayOf(EntryDateOf(e).t)

\* An entry whose hours cannot be derived: no finite hoursWorked and a start or
\* end time that fails to parse.
TimeParseFails(e) ==
  /\ e.hoursWorked.kind # "num"
  /\ (~parseTime(e.startTime, now).ok \/ ~parseTime(e.endTime, now).ok)

\* What entry i of the store adds to its task group.
Contribution ==
  [i \in 1..Len(store) |->
     IF DerivedHours(store[i], now).ok THEN DerivedHours(store[i], now).v ELSE 0]

\* The result is the per-label sum over exactly the entries of index set S.
SumsExactly(out, S) ==
  /\ Labels(out) = { TaskGroupOf(store[i]) : i \in S }
  /\ \A tg \in Labels(out) :
       HoursIn(out, tg) = SumSet({ i \in S : TaskGroupOf(store[i]) = tg }, Contribution)

----------------------------------------------------------------------------
(* Properties of the aggregation specification *)

\* C1: aggregateForEmployee(null, null, null) returns the same sequence as
\* aggregateForAll('all'), whatever the entries' employee and date fields are.
C1_NullEmployeeEqualsAll ==
  (ret.fn = "aggregateForEmployee" /\ ret.employee = ""
     /\ ret.start = DateAbsent /\ ret.end = DateAbsent)
  => ret.out = aggregateForAll(store, "all", now)

\* C2: with 'all' or any token other than daily / weekly / monthly, the range
\* aggregators apply no date bound: every stored entry whose hours can be derived
\* contributes, and the totals are the sums over all of them (stated for stores
\* whose entries all carry a date: past, today or future).
C2_UnboundedTokens ==
  (ret.fn \in RangeAggregators /\ ret.range \notin WindowTokens
     /\ \A i \in 1..Len(store) : HasDay(store[i]))
  => LET derivable == { i \in 1..Len(store) : DerivedHours(store[i], now).ok }
     IN  /\ { TaskGroupOf(store[i]) : i \in derivable } \subseteq Labels(ret.out)
         /\ \A tg \in Labels(ret.out) :
              HoursIn(ret.out, tg) =
                SumSet({ i \in derivable : TaskGroupOf(store[i]) = tg }, Contribution)

\* C3: under daily / weekly / monthly the range aggregators include an entry
\* exactly when its calendar day d satisfies today - k <= d <= today, with k = 0,
\* 6 and 29: the result is the per-label sum over the entries of the window
\* (those with derivable hours in aggregateForAll, all of them in the pie).
C3_WindowInclusion ==
  (ret.fn \in RangeAggregators /\ ret.range \in WindowTokens)
  => LET k == IF ret.range = "daily" THEN 0 ELSE IF ret.range = "weekly" THEN 6 ELSE 29
         inWindow == { i \in 1..Len(store) :
                         /\ HasDay(store[i])
                         /\ Today - k <= EntryDay(store[i])
                         /\ EntryDay(store[i]) <= Today }
         counted == IF ret.fn = "aggregateByTaskGroup" THEN inWindow
                    ELSE { i \in inWindow : DerivedHours(store[i], now).ok }
     IN  SumsExactly(ret.out, counted)

\* C3 witness: a monthly call on a store holding an entry dated 29 days back and
\* one dated 30 days back returned the hours of the first alone.
C3_Witness ==
  /\ ret.fn = "aggregateForAll" /\ ret.range = "monthly"
  /\ Len(store) = 2
  /\ HasDay(store[1]) /\ EntryDay(store[1]) = Today - 29
  /\ HasDay(store[2]) /\ EntryDay(store[2]) = Today - 30
  /\ ret.out = << <<TaskGroupOf(store[1]), Contribution[1]>> >>
  /\ Contribution[1] > 0

\* C4: in every aggregation path an entry without finite hoursWorked whose start
\* or end time fails to parse is left out entirely: a label is in the result only
\* on account of an entry whose hours can be derived.
C4_UnparseableExcluded ==
  ret.fn \in AggregatorNames
  => \A tg \in Labels(ret.out) :
       \E i \in 1..Len(store) :
         TaskGroupOf(store[i]) = tg /\ ~TimeParseFails(store[i])

\* C5: an included entry contributes max(0, hoursWorked) when hoursWorked is a
\* finite number, and otherwise a time-derived amount in [0, 24) hours; every
\* total is non-negative.
C5_HoursContribution ==
  ret.fn \in AggregatorNames
  => /\ \A tg \in Labels(ret.out) : HoursIn(ret.out, tg) >= 0
     /\ (Len(store) = 1 /\ ret.out # <<>>)
        => LET e == store[1]
               h == ret.out[1][2]
           IN  IF e.hoursWorked.kind = "num" THEN h = Max(0, e.hoursWorked.v)
               ELSE 0 <= h /\ h < HoursPerDay * MinPerHour

\* C6: parseTime returns null when the hour part or the minute part is not a
\* number (no colon, or an empty part, included), and otherwise a time of the
\* current date whose hour is 0 for 12am, N + 12 for Npm with N < 12, and the hour
\* as written in every other case.
C6_ParseTimeContract ==
  ret.fn = "parseTime"
  => LET t == ret.time
         numeric == /\ t.kind = "text" /\ Len(t.parts) >= 2
                    /\ t.parts[1].kind = "int" /\ t.parts[2].kind = "int"
     IN  IF ~numeric THEN ~ret.parsed.ok
         ELSE LET h == t.parts[1].v
                  ap == ToLowerCase(t.ap)
                  norm == IF ap = "am" /\ h = 12 THEN 0
                          ELSE IF ap = "pm" /\ h < 12 THEN h + 12 ELSE h
              IN  /\ ret.parsed.ok
                  /\ DayOf(ret.parsed.t) = Today
                  /\ ret.parsed.t - StartOfDay(now) = norm * MinPerHour + t.parts[2].v

----------------------------------------------------------------------------
(* Properties of the page specification *)

\* The handle the script keeps for canvas c: pieChart for the task-group pie,
\* canvas._chart for the dashboard's canvases.
HandleOf(c) == IF c = "taskGroupPie" THEN pie.pieChart ELSE gfx.canvas[c].chart

\* Entry e passes the employee and date filter of the aggregator that feeds
\* canvas c, with the selections as they stand.
PassesFilter(c, e) ==
  IF c = "employeeDonut" THEN EmployeePasses(e, dash.select, dash.start, dash.end)
  ELSE IF c = "allDonut" THEN AllPasses(e, dash.range, now)
  ELSE inRange(EntryDateOf(e), pie.range, now)

\* No stored entry matches: each is rejected by employee, date or time-parse.
NoEntryMatches(c) ==
  \A i \in 1..Len(store) : ~PassesFilter(c, store[i]) \/ TimeParseFails(store[i])

\* C7: when no stored entry matches the filter, the aggregator returns the empty
\* sequence and the render leaves the canvas hidden with no live chart attached.
C7_NoMatchHidesCanvas ==
  \A r \in rendered :
    NoEntryMatches(r.canvas)
    => /\ gfx.canvas[r.canvas].display = "none"
       /\ HandleOf(r.canvas) = 0
       /\ gfx.live[r.canvas] = {}

\* C8: on every canvas at most one chart instance is not destroyed, and the
\* handle kept for the canvas is null or that single live instance.
C8_OneLiveChartPerCanvas ==
  \A c \in CanvasIds :
    /\ Cardinality(gfx.live[c]) <= 1
    /\ HandleOf(c) = 0 \/ ChartIds(gfx.live[c]) = {HandleOf(c)}

\* C8 witness: the last step's render destroyed the chart that was on the canvas
\* and drew another, which is now the only live one.
C8_Witness ==
  \E r \in rendered :
    /\ r.replaced
    /\ Cardinality(gfx.live[r.canvas]) = 1
    /\ ChartIds(gfx.live[r.canvas]) = {HandleOf(r.canvas)}

\* C9: at most one 'dashboard-section' is ever created, with one click listener
\* per Generate Chart button, and it exists once the Dashboard button was clicked;
\* at most one 'task-group-pie-wrap' is created.
C9_BuiltOnce ==
  /\ dash.sections <= 1
  /\ dash.empGenListeners = dash.sections
  /\ dash.allGenListeners = dash.sections
  /\ clicks.dashAny => dash.sections = 1
  /\ pie.wraps <= 1
  /\ pie.changeListeners = pie.wraps

\* C9 witness: the Dashboard button was clicked at least twice and the Logs
\* Tracker button too, the pie was initialised, and one of each element exists.
C9_Witness ==
  /\ clicks.dashAny /\ ~clicks.dashOdd
  /\ clicks.logsAny
  /\ dash.sections = 1
  /\ pie.wraps = 1

\* The panel is displayed to the user: it and its ancestors are not display:none.
DashboardVisible == dash.sections > 0 /\ dash.display = "block"
LogsVisible == DashboardVisible /\ dash.logsDisplay = "block"

\* C10: the logs panel is visible exactly after an odd number of Logs Tracker
\* clicks and the dashboard panel exactly after an odd number of Dashboard
\* clicks, each whatever the other button's clicks were.
C10_IndependentPanels ==
  /\ LogsVisible <=> clicks.logsOdd
  /\ DashboardVisible <=> clicks.dashOdd

----------------------------------------------------------------------------
(* Properties of the hooks specification *)

\* The click the last step's callback belongs to.
FiredClick == calls[fired.click]

\* C11: a refresh (the dashboard's or the task-group pie's re-render) that a
\* click on Add Entry or Generate Report triggers never runs inside the click
\* dispatch, and the entry array it reads already holds what the host page's
\* handler for that click wrote, whichever of the two was registered first.
C11_RefreshDeferred ==
  fired.what \in {"refresh", "pieRender"}
  => /\ ~fired.inDispatch
     /\ fired.saw >= FiredClick.need

\* C11 witness: the deferred refresh of an Add Entry click has just run, the
\* host's handler for that click appended an entry, and the refresh read it.
C11_Witness ==
  /\ fired.what = "refresh"
  /\ FiredClick.kind = "add"
  /\ \E hw \in HostWrites(now) :
       /\ hw # <<>>
       /\ FiredClick.need = Len(store)
       /\ store[Len(store)] = hw[1]
  /\ fired.saw = Len(store)

\* C13: 'entryLogs' only grows by appending: a step in which the lookup of a
\* click resolves leaves the earlier records as they were and adds exactly one
\* {date, lat, lon} record after them, every other step (a lookup that never
\* resolves, a refresh, a click, a toggle) leaves the list alone, and only the
\* host page's handler in a click writes the entry array.
C13_LogsOnlyAppend ==
  [][/\ fired'.what = "geo"
        => \E pos \in Positions(fired'.click) :
             LogRecordsOf(entryLogs') =
               Append(LogRecordsOf(entryLogs),
                      [date |-> now, lat |-> pos[1], lon |-> pos[2]])
     /\ fired'.what # "geo" => entryLogs' = entryLogs
     /\ store' # store => nClicks' = nClicks + 1]_vars

\* C16: when the dashboard is visible and an employee E who is still among the
\* employee names is selected, the deferred refresh after an Add Entry or
\* Generate Report click leaves E selected and draws the employee chart from
\* aggregateForEmployee(E, start, end) for the date inputs as set.
C16_RefreshKeepsEmployee ==
  (/\ fired.what = "refresh"
   /\ fired.shownBefore
   /\ fired.selBefore # ""
   /\ fired.selBefore \in getEmployeeNames(store))
  => /\ dash.select = fired.selBefore
     /\ fired.drewEmp
     /\ fired.empData =
          aggregateForEmployee(store, fired.selBefore, dash.start, dash.end, now)

\* C17: if the logs panel is displayed when Add Entry is clicked and the lookup
\* of that click resolves, then once both callbacks of the click have run (the
\* deferred refresh and the geolocation callback, in either order) the rows of
\* the logs table are exactly the records stored in 'entryLogs'.
C17_LogsTableShowsNewRecord ==
  (/\ fired.what \in {"refresh", "geo"}
   /\ FiredClick.kind = "add"
   /\ FiredClick.logsShown /\ LogsVisible
   /\ FiredClick.refreshed
   /\ FiredClick.geo = "resolved"
   /\ entryLogs.kind = "array")
  => logRows = LogRecordsOf(entryLogs)

----------------------------------------------------------------------------
(* Properties of the storage specification *)

\* The array the fixed order designates: that of the first key holding a
\* non-empty array, else window.entries, else window.workEntries, else none.
FirstUsable(ls, win) ==
  LET good == { i \in 1..Len(tryKeys) :
                  ls[tryKeys[i]].kind = "array" /\ ls[tryKeys[i]].arr # <<>> }
  IN  IF good # {} THEN ls[tryKeys[CHOOSE i \in good : \A j \in good : i <= j]].arr
      ELSE IF win.entries.kind = "array" /\ win.entries.arr # <<>> THEN win.entries.arr
      ELSE IF win.workEntries.kind = "array" /\ win.workEntries.arr # <<>>
           THEN win.workEntries.arr
      ELSE <<>>

\* C14: malformed stored data raises no error and counts as absent:
\* getStoredEntries skips a key whose value is unparseable, not an array or an
\* empty array and goes on in the fixed order; and with an unparseable
\* 'entryLogs', updateLogsTable and the geolocation callback complete without
\* throwing, as if the list were empty.
C14_MalformedIsAbsent ==
  /\ ret.fn = "getStoredEntries" => ret.entries = FirstUsable(ret.ls, ret.win)
  /\ ret.fn = "updateLogsTable" /\ ret.logs.kind = "unparseable"
     => ~ret.threw /\ ret.rows = <<>>
  /\ ret.fn = "geoCallback" /\ ret.logs.kind = "unparseable"
     => /\ ~ret.threw
        /\ \E pos \in Positions(1) : ret.logsAfter = geoCallback(LogsAbsent, now, pos).logs

----------------------------------------------------------------------------
(* Properties of the start-up specification *)

\* The toggle listeners attach() has put on the two buttons.
ToggleListeners == <<listeners.dashboardBtn, listeners.logsTrackerBtn>>

\* C12: in every interleaving of poll ticks with the arrival of the charting
\* library, attach() runs at most once and only where the library is defined;
\* the tick that finds the library clears the interval, so that nothing is
\* attached afterwards and each button has exactly one toggle listener; and
\* once the library is there, attach() eventually runs.
C12_AttachOnceWhenLoaded ==
  /\ [](/\ ToggleListeners \in {<<0, 0>>, <<1, 1>>}
        /\ boot.dash = "attached" <=> ToggleListeners = <<1, 1>>
        /\ boot.dash = "attached" => boot.interval # "active")
  /\ [][listeners' # listeners => chartLib /\ boot.dash # "attached"]_vars
  /\ (chartLib ~> (boot.dash = "attached"))

\* C12 witness: the script polled, a tick found the library and cleared the
\* interval, and the Dashboard button's one listener has built the section.
C12_Witness ==
  /\ boot.dash = "attached"
  /\ boot.interval = "cleared"
  /\ ToggleListeners = <<1, 1>>
  /\ clicks.dashAny /\ dash.sections = 1

====
